---- MODULE Spec2Model ----
(***************************************************************************)
(* Blue Ridge Hot Tubs: the product-mix LP (lp_model.py) and the           *)
(* sensitivity scans built on it (run_analysis.py, sensitivity.py).        *)
(*                                                                         *)
(* Numbers.  The program computes in binary floating point.  Every vertex  *)
(* of the LP's feasible region has coordinates that are multiples of 1/144 *)
(* when the resource limits are integers, so plan quantities, resource     *)
(* amounts and money are held here exactly, as integers counting units of  *)
(* 1/SCALE.  Floating-point rounding noise of the solver is not modelled.  *)
(***************************************************************************)
EXTENDS Integers, Sequences, FiniteSets

\* lcm of the determinants 1, 3, 4, 6, 9, 12, 16, 72 of every pair of rows
SCALE == 16 * 9

ProfitAqua == 350
ProfitHydro == 300
BasePumps == 200
BaseLabor == 1566
BaseTubing == 2880

BaselineAqua == 122
BaselineHydro == 78
BaselineProfit == 66100
PumpsMarginal == 200
PumpsBreak == 207
LaborBreak == 1800
PumpsStop == 220
LaborStop == 1820
TubingIncrement == 50
Q2MaxTest == 1800
LaborMarginalCents == 1667
\* the tolerance 1e-6 is 1 / TolInv
TolInv == 1000000
\* round(..., 2) keeps CentsPerDollar units to the dollar
CentsPerDollar == 100

\* ---- bounds of the model -------------------------------------------------
MaxPumps == 2
MaxLabor == 19
MaxTubing == 33
MaxStep == 2
MaxPumpTest == 221
MaxLaborTest == 1802
MaxScanLen == 5
MaxScanProfit == 4

Abs(n) == IF n < 0 THEN -n ELSE n

Max(S) == CHOOSE m \in S : \A n \in S : n <= m

\* Resources(pumps, labor_hours, tubing_feet)
Resources(p, l, t) == [pumps |-> p, labor_hours |-> l, tubing_feet |-> t]

(***************************************************************************)
(* The LP that solve_hot_tubs formulates: rows a*x1 + b*x2 <= c.  The two  *)
(* last rows are the variables' lowBound=0.                                *)
(***************************************************************************)
\* mutants of the labour row: the two products' hours swapped, and the
\* inequality turned round (9*x1 + 6*x2 >= labor_hours)
LaborRowSwapped(res) == [a |-> 6, b |-> 9, c |-> res.labor_hours]

LaborRowAtLeast(res) == [a |-> -9, b |-> -6, c |-> -res.labor_hours]

LaborRow(res) == [a |-> 9, b |-> 6, c |-> res.labor_hours]

\* a mutant of the tubing row: the two products' feet swapped
TubingRowSwapped(res) == [a |-> 16, b |-> 12, c |-> res.tubing_feet]

TubingRow(res) == [a |-> 12, b |-> 16, c |-> res.tubing_feet]

Rows(res) ==
  << [a |-> 1, b |-> 1, c |-> res.pumps],
     LaborRow(res),
     TubingRow(res),
     [a |-> -1, b |-> 0, c |-> 0],
     [a |-> 0, b |-> -1, c |-> 0] >>

\* a mutant of the objective: the two unit profits swapped
ObjectiveSwapped(x1, x2) == ProfitHydro * x1 + ProfitAqua * x2

Objective(x1, x2) == ProfitAqua * x1 + ProfitHydro * x2

\* a row holds at the point (x1, x2), given in units of 1/SCALE
RowHolds(row, x1, x2) == row.a * x1 + row.b * x2 <= row.c * SCALE

Det(r1, r2) == r1.a * r2.b - r2.a * r1.b

\* the point where two rows are both tight (Cramer's rule), in units of 1/SCALE
Crossing(r1, r2) ==
  LET d == Det(r1, r2)
      s == IF d < 0 THEN -1 ELSE 1
      n1 == s * (r1.c * r2.b - r2.c * r1.b)
      n2 == s * (r1.a * r2.c - r2.a * r1.c)
  IN  << (SCALE \div Abs(d)) * n1, (SCALE \div Abs(d)) * n2 >>

\* the basic feasible solutions of the LP
FeasibleVertices(res) ==
  LET rows == Rows(res)
      I == DOMAIN rows
  IN  { pt \in { Crossing(rows[i], rows[j]) :
                   <<i, j>> \in { ij \in I \X I :
                                    ij[1] < ij[2] /\ Det(rows[ij[1]], rows[ij[2]]) # 0 } } :
          \A i \in I : RowHolds(rows[i], pt[1], pt[2]) }

OptimalVertices(res) ==
  LET F == FeasibleVertices(res)
      best == Max({ Objective(pt[1], pt[2]) : pt \in F })
  IN  { pt \in F : Objective(pt[1], pt[2]) = best }

(***************************************************************************)
(* model.solve(PULP_CBC_CMD): what the external solver leaves behind.  A   *)
(* variable's value is <<v>>, or <<>> for Python's None.  The region is    *)
(* bounded (x1 + x2 <= pumps), so the LP is either optimal at a vertex or  *)
(* infeasible; on an infeasible LP the values the solver leaves are not    *)
(* specified, and any of UnsolvedValues may be read back.                  *)
(***************************************************************************)
UnsolvedValues == { <<>>, <<SCALE>> }

CbcOutcomes(res) ==
  IF FeasibleVertices(res) # {}
  THEN { [status |-> "Optimal", x1 |-> <<pt[1]>>, x2 |-> <<pt[2]>>] :
           pt \in OptimalVertices(res) }
  ELSE { [status |-> "Infeasible", x1 |-> v1, x2 |-> v2] :
           v1 \in UnsolvedValues, v2 \in UnsolvedValues }

\* pulp.value(model.objective): None as soon as a variable has no value
ObjectiveValue(out) ==
  IF out.x1 = <<>> \/ out.x2 = <<>> THEN <<>>
  ELSE << Objective(out.x1[1], out.x2[1]) >>

\* Python's `v or 0.0`
OrZero(v) == IF v = <<>> THEN 0 ELSE v[1]

\* solve_hot_tubs, after the solver has returned `out`
SolutionOf(res, out) ==
  LET xa == OrZero(out.x1)
      xh == OrZero(out.x2)
      used == [pumps |-> xa + xh,
               labor |-> 9 * xa + 6 * xh,
               tubing |-> 12 * xa + 16 * xh]
  IN  [x_aqua |-> xa, x_hydro |-> xh,
       profit |-> OrZero(ObjectiveValue(out)),
       used |-> used,
       slack |-> [pumps |-> res.pumps * SCALE - used.pumps,
                  labor |-> res.labor_hours * SCALE - used.labor,
                  tubing |-> res.tubing_feet * SCALE - used.tubing]]

VARIABLES
  pc,             \* the function that is running, "idle" between calls
  res,            \* solve_hot_tubs: the envelope of the last call
  lpStatus,       \* the status the solver reported for it
  sol,            \* the Solution returned
  exit,           \* how the call ended: "return" or "raise"
  prevRes,        \* the envelope of the call before
  prevProfit,     \* and the profit it returned
  curve,          \* sensitivity_curve_*: the arguments of the call
  xs,             \* its sweep values
  profits,        \* the profits collected so far
  first,          \* deltas[0], <<>> while there is none
  scan_i,         \* i, the scan's position in deltas, counted as Python does
  scan_bp,        \* bp, <<>> is None
  breakpoint_at,  \* its result, <<>> until it returns
  max_profit,
  max_at,
  q,              \* q1_more_pumps / q2_more_labor / q3_more_tubing: the call
  p,              \* the loop variable (p, h, t)
  last_profit,
  first_delta,    \* <<>> is None
  q_breakpoint_at,\* <<>> is None
  printed         \* what the function printed last

solveVars == << res, lpStatus, sol, exit, prevRes, prevProfit >>
curveVars == << curve, xs, profits, first, scan_i, scan_bp, breakpoint_at, max_profit, max_at >>
qVars == << q, p, last_profit, first_delta, q_breakpoint_at, printed >>
vars == << pc, solveVars, curveVars, qVars >>

\* one call of solve_hot_tubs(r): the only exit is the return of line 109
solve_hot_tubs(r) ==
  \E out \in CbcOutcomes(r) :
    /\ res' = r
    /\ lpStatus' = out.status
    /\ sol' = SolutionOf(r, out)
    /\ exit' = "return"
    /\ prevRes' = res
    /\ prevProfit' = sol.profit

NoCurve ==
  /\ curve = [fn |-> "none", start |-> 0, stop |-> 0, den |-> SCALE]
  /\ xs = <<>> /\ profits = <<>> /\ first = <<>> /\ scan_i = 0 /\ scan_bp = <<>>
  /\ breakpoint_at = <<>> /\ max_profit = <<>> /\ max_at = <<>>

NoQ ==
  /\ q = [fn |-> "none", max_test |-> 0]
  /\ p = 0 /\ last_profit = 0 /\ first_delta = <<>>
  /\ q_breakpoint_at = <<>> /\ printed = "nothing"

(***************************************************************************)
(* Specification SpecSolve: solve_hot_tubs called on an envelope, then on  *)
(* envelopes that differ from the last one in one resource.                *)
(***************************************************************************)
Envelopes ==
  { Resources(a, l, t) : a \in -1..MaxPumps, l \in -1..MaxLabor, t \in -1..MaxTubing }

InitSolve ==
  /\ pc = "solve"
  /\ res \in Envelopes
  /\ \E out \in CbcOutcomes(res) :
       /\ lpStatus = out.status
       /\ sol = SolutionOf(res, out)
  /\ exit = "return"
  /\ prevRes = res
  /\ prevProfit = sol.profit
  /\ NoCurve /\ NoQ

MorePumps ==
  \E k \in 1..MaxStep :
    /\ pc = "solve"
    /\ res.pumps + k <= MaxPumps
    /\ solve_hot_tubs([res EXCEPT !.pumps = @ + k])
    /\ UNCHANGED << pc, curveVars, qVars >>

MoreLabor ==
  \E k \in 1..MaxStep :
    /\ pc = "solve"
    /\ res.labor_hours + k <= MaxLabor
    /\ solve_hot_tubs([res EXCEPT !.labor_hours = @ + k])
    /\ UNCHANGED << pc, curveVars, qVars >>

MoreTubing ==
  \E k \in 1..MaxStep :
    /\ pc = "solve"
    /\ res.tubing_feet + k <= MaxTubing
    /\ solve_hot_tubs([res EXCEPT !.tubing_feet = @ + k])
    /\ UNCHANGED << pc, curveVars, qVars >>

NextSolve == MorePumps \/ MoreLabor \/ MoreTubing

SpecSolve == InitSolve /\ [][NextSolve]_vars

(***************************************************************************)
(* run_analysis.py: sensitivity_curve_pumps and sensitivity_curve_labor.   *)
(* curve.den is the number of model units to the dollar of the profits     *)
(* the sweep collects.                                                     *)
(***************************************************************************)
\* a mutant of the comparison: >= for >
ExceedsTolOrEqual(n, den) == Abs(n) >= den \div TolInv

\* abs(x) > 1e-6, for a difference x of n units of 1/den dollar:
\* |n| / den > 1 / TolInv, that is |n| > den / TolInv, |n| being an integer
ExceedsTol(n, den) == Abs(n) > den \div TolInv

\* deltas = [profits[i+1] - profits[i] for i in range(len(profits)-1)]
Deltas(ps) == [i \in 1..(Len(ps) - 1) |-> ps[i + 1] - ps[i]]

\* the loop over enumerate(deltas[1:], start=1), from position j on: <<xs[i]>>
\* at the first delta that leaves the first one, <<>> if the loop ends (bp
\* stays None).  Python's deltas[i] is deltas[i + 1] here, xs[i] is xs[i + 1].
\* a mutant of line 27: the value after the deviating step, Python's xs[i + 1]
XsAfter(i) == xs[i + 2]

\* Python's xs[i]
XsAt(i) == xs[i + 1]

\* profits.index(max_profit): the first position holding it
IndexOf(ps, v) == CHOOSE i \in 1..Len(ps) : ps[i] = v /\ \A j \in 1..(i - 1) : ps[j] # v

\* xs = list(range(start, stop + 1))
RangeList(start, stop) == [i \in 1..(stop + 1 - start) |-> start + i - 1]

\* a mutant: each sweep varying the other one's resource
CurveEnvelopeCrossed ==
  LET v == xs[Len(profits) + 1]
  IN  IF curve.fn = "labor" THEN Resources(v, BaseLabor, BaseTubing)
      ELSE Resources(BasePumps, v, BaseTubing)

\* the envelope of the next solve of the sweep
CurveEnvelope ==
  LET v == xs[Len(profits) + 1]
  IN  IF curve.fn = "pumps" THEN Resources(v, BaseLabor, BaseTubing)
      ELSE Resources(BasePumps, v, BaseTubing)

\* the call: the arguments are bound and xs is built
CallCurve(fn, start, stop, den) ==
  /\ pc = "idle"
  /\ start <= stop
  /\ curve' = [fn |-> fn, start |-> start, stop |-> stop, den |-> den]
  /\ xs' = RangeList(start, stop)
  /\ profits' = <<>>
  /\ first' = <<>> /\ scan_i' = 0 /\ scan_bp' = <<>>
  /\ breakpoint_at' = <<>> /\ max_profit' = <<>> /\ max_at' = <<>>
  /\ pc' = "curve_loop"
  /\ UNCHANGED << solveVars, qVars >>

\* profits.append(sol.profit)
CurveAppend(v) ==
  /\ pc = "curve_loop"
  /\ Len(profits) < Len(xs)
  /\ profits' = Append(profits, v)
  /\ pc' = IF Len(profits) + 1 = Len(xs) THEN "curve_deltas" ELSE "curve_loop"
  /\ UNCHANGED << curve, xs, first, scan_i, scan_bp, breakpoint_at, max_profit, max_at, qVars >>

\* one turn of the sweep's loop, the profit coming from the LP
CurveSolve ==
  /\ pc = "curve_loop"
  /\ solve_hot_tubs(CurveEnvelope)
  /\ CurveAppend(sol'.profit)

\* lines 19-24: with deltas, first = deltas[0], bp = None and the scan starts
\* at i = 1; without, the else branch of line 30 is taken
CurveDeltas ==
  /\ pc = "curve_deltas"
  /\ IF Deltas(profits) # <<>>
     THEN /\ first' = << Deltas(profits)[1] >>
          /\ scan_i' = 1
          /\ pc' = "curve_scan"
     ELSE /\ pc' = "curve_return"
          /\ UNCHANGED << first, scan_i >>
  /\ scan_bp' = <<>>
  /\ UNCHANGED << solveVars, curve, xs, profits, breakpoint_at, max_profit, max_at, qVars >>

\* one turn of `for i, d in enumerate(deltas[1:], start=1)`; Python's
\* deltas[i] is Deltas(profits)[i + 1]
CurveScan ==
  /\ pc = "curve_scan"
  /\ scan_i + 1 <= Len(Deltas(profits))
  /\ IF ExceedsTol(Deltas(profits)[scan_i + 1] - first[1], curve.den)
     THEN /\ scan_bp' = << XsAt(scan_i) >>
          /\ pc' = "curve_return"
          /\ UNCHANGED scan_i
     ELSE /\ scan_i' = scan_i + 1
          /\ UNCHANGED << scan_bp, pc >>
  /\ UNCHANGED << solveVars, curve, xs, profits, first, breakpoint_at, max_profit, max_at, qVars >>

\* lines 29-37, after the break or the end of the scan: breakpoint, maximum
CurveReturn ==
  /\ \/ pc = "curve_return"
     \/ pc = "curve_scan" /\ scan_i + 1 > Len(Deltas(profits))
  /\ breakpoint_at' = IF scan_bp # <<>> THEN scan_bp ELSE << xs[Len(xs)] >>
  /\ LET m == Max({ profits[j] : j \in 1..Len(profits) })
     IN  /\ max_profit' = << m >>
         /\ max_at' = << xs[IndexOf(profits, m)] >>
  /\ pc' = "idle"
  /\ UNCHANGED << solveVars, curve, xs, profits, first, scan_i, scan_bp, qVars >>

(***************************************************************************)
(* sensitivity.py: delta_profit, q1_more_pumps, q2_more_labor,             *)
(* q3_more_tubing.                                                         *)
(***************************************************************************)
\* round(num / den) to the nearest integer, a tie going to the even one
RoundHalfEven(num, den) ==
  LET f == num \div den
      r == num % den
  IN  IF 2 * r < den THEN f
      ELSE IF 2 * r > den THEN f + 1
      ELSE IF f % 2 = 0 THEN f ELSE f + 1

\* a bug: the new profit itself, not the change
DeltaProfitNoBase(base_profit, new_profit) ==
  RoundHalfEven(new_profit * CentsPerDollar, SCALE)

\* round(new_profit - base_profit, 2), in cents
delta_profit(base_profit, new_profit) ==
  RoundHalfEven((new_profit - base_profit) * CentsPerDollar, SCALE)

\* a bug: `and breakpoint_at is None` left out, so a later change overwrites
BreakpointUpdateLast(bp, fd, d, v) ==
  IF fd # <<>> /\ ExceedsTol(d - fd[1], CentsPerDollar) THEN << v >> ELSE bp

\* lines 59-63: the breakpoint after a step whose rounded delta is d
BreakpointUpdate(bp, fd, d, v) ==
  IF fd # <<>> /\ ExceedsTol(d - fd[1], CentsPerDollar) /\ bp = <<>>
  THEN << v >> ELSE bp

\* Python's truth of `breakpoint_at`: None and 0 are false
Truthy(v) == v # <<>> /\ v[1] # 0

\* lines 43-52 of q1_more_pumps: the baseline solve and the loop's start
CallQ1(max_test) ==
  /\ pc = "idle"
  /\ solve_hot_tubs(Resources(BasePumps, BaseLabor, BaseTubing))
  /\ q' = [fn |-> "q1", max_test |-> max_test]
  /\ last_profit' = sol'.profit
  /\ first_delta' = <<>>
  /\ q_breakpoint_at' = <<>>
  /\ p' = BasePumps + 1
  /\ printed' = "baseline"
  /\ pc' = "q1_loop"
  /\ UNCHANGED curveVars

\* one turn of `for p in range(base_res.pumps + 1, max_test + 1)`
Q1Step ==
  /\ pc = "q1_loop"
  /\ p <= q.max_test
  /\ solve_hot_tubs(Resources(p, BaseLabor, BaseTubing))
  /\ LET d == delta_profit(last_profit, sol'.profit)
     IN  /\ first_delta' = IF first_delta = <<>> THEN << d >> ELSE first_delta
         /\ q_breakpoint_at' = BreakpointUpdate(q_breakpoint_at, first_delta, d, p)
  /\ last_profit' = sol'.profit
  /\ p' = p + 1
  /\ UNCHANGED << pc, q, printed, curveVars >>

\* lines 66-70: formatting first_delta = None raises TypeError
Q1Print ==
  /\ pc = "q1_loop"
  /\ p > q.max_test
  /\ printed' = IF first_delta = <<>> THEN "TypeError"
                ELSE IF Truthy(q_breakpoint_at) THEN "breakpoint near"
                ELSE "no breakpoint detected"
  /\ pc' = "idle"
  /\ UNCHANGED << solveVars, curveVars, q, p, last_profit, first_delta, q_breakpoint_at >>

\* lines 119-126 of q3_more_tubing
CallQ3(increment) ==
  /\ pc = "idle"
  /\ solve_hot_tubs(Resources(BasePumps, BaseLabor, BaseTubing))
  /\ q' = [fn |-> "q3", max_test |-> BaseTubing + increment]
  /\ last_profit' = sol'.profit
  /\ first_delta' = <<>>
  /\ q_breakpoint_at' = <<>>
  /\ p' = BaseTubing + 1
  /\ printed' = "baseline"
  /\ pc' = "q3_loop"
  /\ UNCHANGED curveVars

\* one turn of the loop over t; a change of profit prints and returns
Q3Step ==
  /\ pc = "q3_loop"
  /\ p <= q.max_test
  /\ solve_hot_tubs(Resources(BasePumps, BaseLabor, p))
  /\ LET d == delta_profit(last_profit, sol'.profit)
     IN  IF ExceedsTol(d, CentsPerDollar)
         THEN /\ printed' = "tubing becomes binding"
              /\ pc' = "idle"
              /\ UNCHANGED << p, last_profit >>
         ELSE /\ last_profit' = sol'.profit
              /\ p' = p + 1
              /\ UNCHANGED << pc, printed >>
  /\ UNCHANGED << q, first_delta, q_breakpoint_at, curveVars >>

\* line 135, after the loop
Q3Print ==
  /\ pc = "q3_loop"
  /\ p > q.max_test
  /\ printed' = "tubing is non-binding"
  /\ pc' = "idle"
  /\ UNCHANGED << solveVars, curveVars, q, p, last_profit, first_delta, q_breakpoint_at >>

\* a mutant of line 94: the hours passed as the pumps, as q1_more_pumps does
Q2EnvelopePumps(h) == Resources(h, BaseLabor, BaseTubing)

\* line 94 of q2_more_labor: the envelope of the solve for h hours
Q2Envelope(h) == Resources(BasePumps, h, BaseTubing)

\* lines 82-91 of q2_more_labor: the baseline solve and the loop's start
CallQ2(max_test) ==
  /\ pc = "idle"
  /\ solve_hot_tubs(Resources(BasePumps, BaseLabor, BaseTubing))
  /\ q' = [fn |-> "q2", max_test |-> max_test]
  /\ last_profit' = sol'.profit
  /\ first_delta' = <<>>
  /\ q_breakpoint_at' = <<>>
  /\ p' = BaseLabor + 1
  /\ printed' = "baseline"
  /\ pc' = "q2_loop"
  /\ UNCHANGED curveVars

\* one turn of `for h in range(base_res.labor_hours + 1, max_test + 1)`
Q2Step ==
  /\ pc = "q2_loop"
  /\ p <= q.max_test
  /\ solve_hot_tubs(Q2Envelope(p))
  /\ LET d == delta_profit(last_profit, sol'.profit)
     IN  /\ first_delta' = IF first_delta = <<>> THEN << d >> ELSE first_delta
         /\ q_breakpoint_at' = BreakpointUpdate(q_breakpoint_at, first_delta, d, p)
  /\ last_profit' = sol'.profit
  /\ p' = p + 1
  /\ UNCHANGED << pc, q, printed, curveVars >>

\* lines 103-107: formatting first_delta = None raises TypeError
Q2Print ==
  /\ pc = "q2_loop"
  /\ p > q.max_test
  /\ printed' = IF first_delta = <<>> THEN "TypeError"
                ELSE IF Truthy(q_breakpoint_at) THEN "breakpoint near"
                ELSE "no breakpoint detected"
  /\ pc' = "idle"
  /\ UNCHANGED << solveVars, curveVars, q, p, last_profit, first_delta, q_breakpoint_at >>

(***************************************************************************)
(* Specification SpecSweep: after the baseline solve that both main()s     *)
(* start with, one sweep of run_analysis.py and one question of            *)
(* sensitivity.py run to their end, in either order.                       *)
(***************************************************************************)
InitSweep ==
  /\ pc = "idle"
  /\ res = Resources(BasePumps, BaseLabor, BaseTubing)
  /\ \E out \in CbcOutcomes(res) :
       /\ lpStatus = out.status
       /\ sol = SolutionOf(res, out)
  /\ exit = "return"
  /\ prevRes = res
  /\ prevProfit = sol.profit
  /\ NoCurve /\ NoQ

CallCurvePumps ==
  \E stop \in BasePumps..MaxPumpTest :
    curve.fn = "none" /\ CallCurve("pumps", BasePumps, stop, SCALE)

CallCurveLabor ==
  curve.fn = "none" /\ CallCurve("labor", BaseLabor, LaborStop, SCALE)

CallQ1Pumps ==
  \E max_test \in BasePumps..MaxPumpTest : q.fn = "none" /\ CallQ1(max_test)

CallQ3Tubing == q.fn = "none" /\ CallQ3(TubingIncrement)

\* max_test around the default 1800; a smaller one runs a prefix of these loops
CallQ2Labor ==
  \E max_test \in (Q2MaxTest - 1)..MaxLaborTest : q.fn = "none" /\ CallQ2(max_test)

NextSweep ==
  \/ CallCurvePumps \/ CallCurveLabor \/ CurveSolve
  \/ CurveDeltas \/ CurveScan \/ CurveReturn
  \/ CallQ1Pumps \/ Q1Step \/ Q1Print
  \/ CallQ2Labor \/ Q2Step \/ Q2Print
  \/ CallQ3Tubing \/ Q3Step \/ Q3Print

SpecSweep == InitSweep /\ [][NextSweep]_vars

(***************************************************************************)
(* Specification SpecScan: the sweeps with the solver left open.  The      *)
(* scan of lines 18-31 reads nothing but the profits, so here a solve may  *)
(* return any profit of 0..MaxScanProfit units of 1/ScanDen dollar (half a *)
(* millionth: differences of 1 and 2 units are within the tolerance).      *)
(***************************************************************************)
ScanDen == 2 * TolInv

CallCurveAny ==
  \E len \in 1..MaxScanLen :
    /\ curve.fn = "none"
    /\ \/ CallCurve("pumps", BasePumps, BasePumps + len - 1, ScanDen)
       \/ CallCurve("labor", BaseLabor, BaseLabor + len - 1, ScanDen)

CurveSolveAny ==
  \E v \in 0..MaxScanProfit : CurveAppend(v) /\ UNCHANGED solveVars

NextScan == CallCurveAny \/ CurveSolveAny \/ CurveDeltas \/ CurveScan \/ CurveReturn

SpecScan == InitSweep /\ [][NextScan]_vars

\* an envelope of the data model: three quantities >= 0
ValidEnvelope(r) == r.pumps >= 0 /\ r.labor_hours >= 0 /\ r.tubing_feet >= 0

\* r2 is r1 with more of exactly one resource
GrewOne(r1, r2) ==
  \/ r2.pumps > r1.pumps /\ r2.labor_hours = r1.labor_hours /\ r2.tubing_feet = r1.tubing_feet
  \/ r2.pumps = r1.pumps /\ r2.labor_hours > r1.labor_hours /\ r2.tubing_feet = r1.tubing_feet
  \/ r2.pumps = r1.pumps /\ r2.labor_hours = r1.labor_hours /\ r2.tubing_feet > r1.tubing_feet

\* C6: on every envelope with quantities >= 0 the Solution has x_aqua >= 0 and
\* x_hydro >= 0 and, for pumps, labor and tubing, used + slack equal to the
\* envelope quantity and used <= the envelope quantity (slack >= 0).
FeasibleWithSlackIdentity ==
  ValidEnvelope(res) =>
    /\ sol.x_aqua >= 0 /\ sol.x_hydro >= 0
    /\ sol.used.pumps + sol.slack.pumps = res.pumps * SCALE
    /\ sol.used.labor + sol.slack.labor = res.labor_hours * SCALE
    /\ sol.used.tubing + sol.slack.tubing = res.tubing_feet * SCALE
    /\ sol.x_aqua + sol.x_hydro <= res.pumps * SCALE
    /\ 9 * sol.x_aqua + 6 * sol.x_hydro <= res.labor_hours * SCALE
    /\ 12 * sol.x_aqua + 16 * sol.x_hydro <= res.tubing_feet * SCALE
    /\ sol.slack.pumps >= 0 /\ sol.slack.labor >= 0 /\ sol.slack.tubing >= 0

\* a call after a step in one resource that returned a plan making both
\* products, with labor and tubing used up and pumps left over
FeasibleWithSlackWitness ==
  /\ ValidEnvelope(res) /\ GrewOne(prevRes, res)
  /\ sol.x_aqua > 0 /\ sol.x_hydro > 0
  /\ sol.slack.labor = 0 /\ sol.slack.tubing = 0 /\ sol.slack.pumps > 0

\* C5: of two envelopes (quantities >= 0) that differ in exactly one resource,
\* the one with more of it has an optimal profit that is not smaller; and the
\* profits a sweep has collected never decrease along the sweep.
MonotoneProfit ==
  /\ ValidEnvelope(prevRes) /\ ValidEnvelope(res) /\ GrewOne(prevRes, res)
       => sol.profit >= prevProfit
  /\ \A i \in 1..(Len(profits) - 1) : profits[i] <= profits[i + 1]

\* a solve on an envelope with one more unit of one resource and a larger profit
MonotoneProfitWitness ==
  /\ ValidEnvelope(prevRes) /\ ValidEnvelope(res) /\ GrewOne(prevRes, res)
  /\ sol.profit > prevProfit
  /\ prevProfit > 0

InitAll == InitSolve \/ InitSweep

NextAll == NextSolve \/ NextSweep

\* solve_hot_tubs on the small envelopes and inside the sweeps
SpecAll == InitAll /\ [][NextAll]_vars

\* C7: when the solver does not report an optimal solution, solve_hot_tubs
\* surfaces a failure to its caller instead of returning a Solution.
SolverFailureSurfaced == lpStatus # "Optimal" => exit = "raise"

(***************************************************************************)
(* The scans, read off the profits as the claims state them: Python's      *)
(* deltas[i] = profits[i+1] - profits[i], with positions counted from 0.   *)
(***************************************************************************)
PyDelta(i) == profits[i + 2] - profits[i + 1]

PyDeltaCount == IF Len(profits) = 0 THEN 0 ELSE Len(profits) - 1

\* |deltas[i] - deltas[0]| > 1e-6
PyDeviates(i) == Abs(PyDelta(i) - PyDelta(0)) > curve.den \div TolInv

PyLeastDeviation(k) ==
  /\ k \in 1..(PyDeltaCount - 1)
  /\ PyDeviates(k)
  /\ \A i \in 1..(k - 1) : ~PyDeviates(i)

CurveReturned == pc = "idle" /\ breakpoint_at # <<>>

\* C1: when some delta at index i >= 1 leaves deltas[0] by more than 1e-6, the
\* breakpoint returned is xs[k] = start + k for the least such index k.
BreakpointAtLeastDeviation ==
  CurveReturned =>
    \A k \in 1..(PyDeltaCount - 1) :
      PyLeastDeviation(k) => breakpoint_at = << curve.start + k >>

\* a sweep returned whose deltas stay within the tolerance of the first one,
\* without all being equal to it, up to index 2, where the breakpoint is put
BreakpointAtLeastDeviationWitness ==
  /\ CurveReturned
  /\ PyLeastDeviation(2)
  /\ PyDelta(1) # PyDelta(0)
  /\ breakpoint_at = << curve.start + 2 >>
  /\ curve.stop > curve.start + 3

\* C9: a sweep in which no delta at index >= 1 leaves deltas[0] by more than
\* 1e-6 (one point, two points, or more) returns breakpoint_at = stop.
NoDeviationReturnsStop ==
  CurveReturned /\ (\A i \in 1..(PyDeltaCount - 1) : ~PyDeviates(i))
    => breakpoint_at = << curve.stop >>

\* a sweep of four points returned, its deltas within the tolerance of the
\* first one but not all equal to it
NoDeviationReturnsStopWitness ==
  /\ CurveReturned
  /\ Len(xs) = 4
  /\ \A i \in 1..(PyDeltaCount - 1) : ~PyDeviates(i)
  /\ \E i \in 1..(PyDeltaCount - 1) : Abs(PyDelta(i) - PyDelta(0)) = curve.den \div TolInv
  /\ breakpoint_at = << curve.stop >>

\* C2: the pump sweep 200..220 at labor 1566 and tubing 2880 sees a first
\* marginal profit of 200 and returns breakpoint_at = 207.
PumpScenario ==
  CurveReturned /\ curve.fn = "pumps" /\ curve.start = BasePumps /\ curve.stop = PumpsStop
    => /\ first = << PumpsMarginal * SCALE >>
       /\ profits[2] - profits[1] = PumpsMarginal * SCALE
       /\ breakpoint_at = << PumpsBreak >>

PumpScenarioWitness ==
  /\ CurveReturned /\ curve.fn = "pumps" /\ curve.stop = PumpsStop
  /\ Len(profits) = PumpsStop - BasePumps + 1
  /\ breakpoint_at = << PumpsBreak >>

\* C3: the labor sweep 1566..1820 at 200 pumps and tubing 2880 sees a first
\* marginal profit of 50/3 per hour and returns a deviation it found, at 1800
\* or earlier, not the fallback 1820.
LaborScenario ==
  CurveReturned /\ curve.fn = "labor" /\ curve.start = BaseLabor /\ curve.stop = LaborStop
    => /\ first # <<>> /\ 3 * first[1] = 50 * SCALE
       /\ \E k \in 1..(PyDeltaCount - 1) :
            PyLeastDeviation(k) /\ breakpoint_at = << curve.start + k >>
       /\ breakpoint_at[1] <= LaborBreak
       /\ breakpoint_at[1] # LaborStop

LaborScenarioWitness ==
  /\ CurveReturned /\ curve.fn = "labor" /\ curve.stop = LaborStop
  /\ Len(profits) = LaborStop - BaseLabor + 1
  /\ breakpoint_at = << LaborBreak >>

\* C4: on pumps=200, labor_hours=1566, tubing_feet=2880 solve_hot_tubs returns
\* x_aqua = 122, x_hydro = 78, a profit within 0.5 of 66100, pumps and labor
\* fully used and tubing left over.
BaselineScenario ==
  res = Resources(BasePumps, BaseLabor, BaseTubing) =>
    /\ sol.x_aqua = BaselineAqua * SCALE
    /\ sol.x_hydro = BaselineHydro * SCALE
    /\ 2 * Abs(sol.profit - BaselineProfit * SCALE) <= SCALE
    /\ sol.used.pumps = BasePumps * SCALE /\ sol.slack.pumps = 0
    /\ sol.used.labor = BaseLabor * SCALE /\ sol.slack.labor = 0
    /\ sol.slack.tubing > 0

\* the baseline solve q1_more_pumps starts with has just returned
BaselineScenarioWitness ==
  /\ pc = "q1_loop" /\ p = BasePumps + 1
  /\ res = Resources(BasePumps, BaseLabor, BaseTubing)
  /\ sol.profit = BaselineProfit * SCALE

\* C8: q3_more_tubing(50) solves tubing = 2881..2930 at 200 pumps and 1566
\* hours, sees no step change the profit, never returns early saying that
\* tubing becomes binding, and ends saying that profit does not change.
TubingScenario ==
  q.fn = "q3" =>
    /\ printed # "tubing becomes binding"
    /\ pc = "q3_loop" =>
         /\ p \in (BaseTubing + 1)..(BaseTubing + TubingIncrement + 1)
         /\ res = Resources(BasePumps, BaseLabor, p - 1)
         /\ sol.profit = last_profit
         /\ last_profit = prevProfit \/ p = BaseTubing + 1
    /\ pc = "idle" =>
         /\ printed = "tubing is non-binding"
         /\ p = BaseTubing + TubingIncrement + 1
         /\ res # Resources(BasePumps, BaseLabor, BaseTubing + TubingIncrement)
              => curve.fn # "none"

TubingScenarioWitness ==
  /\ q.fn = "q3" /\ pc = "idle"
  /\ printed = "tubing is non-binding"
  /\ res = Resources(BasePumps, BaseLabor, BaseTubing + TubingIncrement)

\* C10: at labor 1566 and tubing 2880, for an upper bound M >= 209, when
\* sensitivity_curve_pumps(200, M) finds a deviation and returns b,
\* q1_more_pumps(M) ends with breakpoint_at = b + 1.
Q1OneAfterCurve ==
  /\ CurveReturned /\ curve.fn = "pumps" /\ curve.start = BasePumps
  /\ q.fn = "q1" /\ printed # "baseline"
  /\ q.max_test = curve.stop /\ curve.stop >= BasePumps + 9
  /\ \E k \in 1..(PyDeltaCount - 1) : PyDeviates(k)
  => q_breakpoint_at = << breakpoint_at[1] + 1 >>

\* both scans done for M = 220: 207 from the curve, 208 from q1
Q1OneAfterCurveWitness ==
  /\ CurveReturned /\ curve.fn = "pumps" /\ curve.stop = PumpsStop
  /\ q.fn = "q1" /\ printed = "breakpoint near" /\ q.max_test = PumpsStop
  /\ breakpoint_at = << PumpsBreak >>
  /\ q_breakpoint_at = << PumpsBreak + 1 >>

\* C11: in q2_more_labor every one-hour delta for labor 1567..1800, rounded to
\* cents, is the first delta, 16.67, so with max_test = 1800 breakpoint_at is
\* still None at the end and "no breakpoint detected" is printed; a breakpoint
\* is set only when max_test >= 1801.
Q2NoBreakpointUpTo1800 ==
  q.fn = "q2" =>
    /\ pc = "q2_loop" /\ res.labor_hours \in (BaseLabor + 1)..Q2MaxTest =>
         /\ res = Resources(BasePumps, p - 1, BaseTubing)
         /\ prevRes = Resources(BasePumps, p - 2, BaseTubing)
         /\ 2 * Abs(CentsPerDollar * (sol.profit - prevProfit) - LaborMarginalCents * SCALE)
              <= SCALE
         /\ first_delta = << LaborMarginalCents >>
    /\ p <= Q2MaxTest + 1 => q_breakpoint_at = <<>>
    /\ pc = "idle" /\ q.max_test = Q2MaxTest =>
         q_breakpoint_at = <<>> /\ printed = "no breakpoint detected"
    /\ pc = "idle" => (q_breakpoint_at # <<>> <=> q.max_test >= Q2MaxTest + 1)
    /\ q_breakpoint_at # <<>> => q_breakpoint_at = << Q2MaxTest + 1 >>

\* q2_more_labor(1800) has run its loop up to h = 1800 and printed its verdict
Q2NoBreakpointUpTo1800Witness ==
  /\ q.fn = "q2" /\ pc = "idle" /\ q.max_test = Q2MaxTest
  /\ p = Q2MaxTest + 1
  /\ res = Resources(BasePumps, Q2MaxTest, BaseTubing)
  /\ first_delta = << LaborMarginalCents >>
  /\ printed = "no breakpoint detected"

====
